---- MODULE Spec2Model ----
(***************************************************************************)
(* Model of src/main.py: the palette edit engine (Edit, Config, Color,     *)
(* Palette, Palettes, JsonEncoder) and the run of main.                    *)
(*                                                                         *)
(* Numbers are exact rationals [n, d]; the rule values and the channel     *)
(* values of the model are chosen so that every operation is exact.        *)
(* An optional field (str | None, bool | None) is the set of its values:   *)
(* {} is None and {v} is v, so that None equals no string and no boolean.  *)
(* A hex string is the sequence of its characters.                         *)
(* The colourimetry of the colour engine (coloraide) is not part of the    *)
(* repository: the model keeps the engine's contract (named spaces, named  *)
(* channels, hex parsing, gamut fitting and hex formatting) and takes the  *)
(* coordinates of a cylindrical space (okhsl, okhsv) to be the sRGB        *)
(* coordinates scaled to [0, 1], so that a conversion between spaces is    *)
(* exact.                                                                  *)
(***************************************************************************)
EXTENDS Integers, Sequences, FiniteSets, TLC

VARIABLES conf, detailed, palettes, pc, vi, files, err, input, calls, used

vars == <<conf, detailed, palettes, pc, vi, files, err, input, calls, used>>

\* ------------------------------------------------------------------------
\* Bounds of the model
\* ------------------------------------------------------------------------
MaxEdits == 2

\* ------------------------------------------------------------------------
\* Exact rational arithmetic (the floats of the program)
\* ------------------------------------------------------------------------
Abs(x) == IF x < 0 THEN -x ELSE x

RECURSIVE GCD(_, _)
GCD(a, b) == IF b = 0 THEN a ELSE GCD(b, a % b)

Rat(n, d) ==
    LET s == IF d < 0 THEN -1 ELSE 1
        g == GCD(Abs(n), Abs(d))
    IN  [n |-> (s * n) \div g, d |-> (s * d) \div g]

RAdd(x, y) == Rat(x.n * y.d + y.n * x.d, x.d * y.d)
RNeg(x) == [n |-> -x.n, d |-> x.d]
RMul(x, y) == Rat(x.n * y.n, x.d * y.d)
RInv(x) == Rat(x.d, x.n)
RLess(x, y) == x.n * y.d < y.n * x.d

Zero == Rat(0, 1)
One == Rat(1, 1)
Half == Rat(1, 2)

\* ------------------------------------------------------------------------
\* Optional values and errors
\* ------------------------------------------------------------------------
None == {}
Some(v) == {v}

NoError == [kind |-> "none", names |-> {}]

\* ------------------------------------------------------------------------
\* The colour engine: _Color(hex), convert, set, to_string(hex=True)
\* ------------------------------------------------------------------------
LowerDigits ==
    <<"0", "1", "2", "3", "4", "5", "6", "7", "8", "9", "a", "b", "c", "d", "e", "f">>
UpperDigits ==
    <<"0", "1", "2", "3", "4", "5", "6", "7", "8", "9", "A", "B", "C", "D", "E", "F">>

DigitValue(ch) ==
    (CHOOSE i \in 1..16 : LowerDigits[i] = ch \/ UpperDigits[i] = ch) - 1

ByteValue(hi, lo) == 16 * DigitValue(hi) + DigitValue(lo)

ByteDigits(b) == <<LowerDigits[(b \div 16) + 1], LowerDigits[(b % 16) + 1]>>

\* _Color(hex): "#rgb", "#rgba", "#rrggbb" and "#rrggbbaa" are accepted,
\* digits in either case; the result is the sRGB bytes and the alpha byte.
ParseHex(hex) ==
    LET short == Len(hex) \in {4, 5}
        byte(k) == IF short THEN ByteValue(hex[k + 1], hex[k + 1])
                   ELSE ByteValue(hex[2 * k], hex[2 * k + 1])
        hasAlpha == Len(hex) \in {5, 9}
    IN  [rgb |-> <<byte(1), byte(2), byte(3)>>,
         alpha |-> IF hasAlpha THEN byte(4) ELSE 255]

KnownSpaces == {"srgb", "okhsl", "okhsv"}

\* The names (and aliases) of the three channels of a space.
ChannelIndex(space, key) ==
    CASE space = "okhsl" /\ key \in {"h", "hue"} -> 1
      [] space = "okhsl" /\ key \in {"s", "saturation"} -> 2
      [] space = "okhsl" /\ key \in {"l", "lightness"} -> 3
      [] space = "okhsv" /\ key \in {"h", "hue"} -> 1
      [] space = "okhsv" /\ key \in {"s", "saturation"} -> 2
      [] space = "okhsv" /\ key \in {"v", "value"} -> 3
      [] space = "srgb" /\ key \in {"r", "red"} -> 1
      [] space = "srgb" /\ key \in {"g", "green"} -> 2
      [] space = "srgb" /\ key \in {"b", "blue"} -> 3
      [] OTHER -> 0

\* _Color(self.hex).convert('okhsl')
FromHex(hex) ==
    LET p == ParseHex(hex)
    IN  [space |-> "okhsl",
         coords |-> [k \in 1..3 |-> Rat(p.rgb[k], 255)],
         alpha |-> p.alpha]

\* color.convert(space): an unknown space is an error of the engine, which is
\* given the space identifier only.
ConvertError(space) ==
    IF space \in KnownSpaces THEN NoError
    ELSE [kind |-> "unknown_space", names |-> {space}]

Convert(color, space) == [color EXCEPT !.space = space]

\* Gamut fitting and rounding of one coordinate to a byte.
ToByte(x) ==
    LET c == IF RLess(x, Zero) THEN Zero ELSE IF RLess(One, x) THEN One ELSE x
    IN  (2 * 255 * c.n + c.d) \div (2 * c.d)

\* color.convert('srgb').to_string(hex=True): lower case, two digits a
\* channel, the alpha byte only when the colour is not opaque.
ToHexString(color) ==
    LET body == <<"#">> \o ByteDigits(ToByte(color.coords[1]))
                        \o ByteDigits(ToByte(color.coords[2]))
                        \o ByteDigits(ToByte(color.coords[3]))
    IN  IF color.alpha = 255 THEN body ELSE body \o ByteDigits(color.alpha)

\* ------------------------------------------------------------------------
\* Edit.__call__
\* ------------------------------------------------------------------------
LightnessNames == {"l", "lightness"}

IsInverse(edit) == edit.inverse_light /\ edit.variable \in LightnessNames

ZeroDivisionError == [kind |-> "zero_division", names |-> {}]

\* The division by zero special-cased to a result.
EditCallSilent(edit, value) ==
    LET v == IF IsInverse(edit) /\ edit.type # "value"
             THEN (IF edit.type = "add" THEN RNeg(edit.value)
                   ELSE IF edit.value = Zero THEN Zero ELSE RInv(edit.value))
             ELSE edit.value
    IN  [value |-> Some(IF edit.type = "value" THEN v
                        ELSE IF edit.type = "add" THEN RAdd(value, v)
                        ELSE RMul(value, v)),
         error |-> NoError]

\* The result of a call: the value returned (None when the call raised) and
\* the error raised.
EditCall(edit, value) ==
    LET inverse == IsInverse(edit)
    IN  CASE edit.type = "value" ->
               [value |-> Some(edit.value), error |-> NoError]
          [] edit.type = "add" ->
               [value |-> Some(RAdd(value, IF inverse THEN RNeg(edit.value)
                                                      ELSE edit.value)),
                error |-> NoError]
          [] edit.type = "multiply" ->
               IF inverse /\ edit.value = Zero
               THEN [value |-> None, error |-> ZeroDivisionError]
               ELSE [value |-> Some(RMul(value, IF inverse THEN RInv(edit.value)
                                                           ELSE edit.value)),
                     error |-> NoError]

\* ------------------------------------------------------------------------
\* Color
\* ------------------------------------------------------------------------
\* Color.__post_init__
NewColor(hex, accent) == [hex |-> hex, accent |-> accent, color |-> FromHex(hex)]

\* The rule's name passed as the key in place of its variable.
ColorEditByName(c, edit) ==
    LET idx == IF edit.name = None THEN 0
               ELSE ChannelIndex(c.color.space, CHOOSE n \in edit.name : TRUE)
    IN  IF idx = 0
        THEN [c |-> c,
              error |-> [kind |-> "unknown_channel", names |-> edit.name],
              before |-> None, after |-> None]
        ELSE [c |-> c, error |-> NoError,
              before |-> Some(c.color.coords[idx]),
              after |-> Some(c.color.coords[idx])]

\* Color.edit(key, edit) -> color.set(key, edit): the channel is resolved
\* first (an unknown name is an error of the engine, which is given the
\* channel name only), then the edit is called on the channel's value and
\* its result is stored.
ColorEdit(c, edit) ==
    LET idx == ChannelIndex(c.color.space, edit.variable)
    IN  IF idx = 0
        THEN [c |-> c,
              error |-> [kind |-> "unknown_channel", names |-> {edit.variable}],
              before |-> None, after |-> None]
        ELSE LET r == EditCall(edit, c.color.coords[idx])
             IN  [c |-> IF r.error = NoError
                        THEN [c EXCEPT !.color.coords[idx] =
                                           CHOOSE v \in r.value : TRUE]
                        ELSE c,
                  error |-> r.error,
                  before |-> Some(c.color.coords[idx]),
                  after |-> r.value]

\* Color.update
ColorUpdate(c) == [c EXCEPT !.hex = ToHexString(Convert(c.color, "srgb"))]

\* ------------------------------------------------------------------------
\* Palette
\* ------------------------------------------------------------------------
\* Both selectors required.
MatchesBoth(edit, name, c) == edit.name = Some(name) /\ edit.accent = Some(c.accent)

\* An unset selector taken as a match of everything.
MatchesUnset(edit, name, c) ==
    \/ edit.name = None \/ edit.name = Some(name)
    \/ edit.accent = None \/ edit.accent = Some(c.accent)

\* The condition of line 91.
Matches(edit, name, c) == edit.name = Some(name) \/ edit.accent = Some(c.accent)

\* The dark flag of the variant left out.
InverseOfConfig(cf, p) == cf.inverse_edit_light

\* The invert flag stored in the shared rules.
SharedEditsInPlace(cf, p) ==
    [k \in DOMAIN cf.edits |->
        [cf.edits[k] EXCEPT !.inverse_light = cf.inverse_edit_light /\ ~p.dark]]

\* The per-variant edits of lines 82-85.
Inverse(cf, p) == cf.inverse_edit_light /\ ~p.dark

DerivedEdits(cf, p) ==
    [k \in DOMAIN cf.edits |-> [cf.edits[k] EXCEPT !.inverse_light = Inverse(cf, p)]]

\* What building the derived edits leaves in the shared conf.edits.
SharedEdits(cf, p) == cf.edits

\* Each matching rule applied to the value the channel had before the edits.
RECURSIVE SnapshotLoop(_, _, _, _, _)
SnapshotLoop(st, orig, name, edits, k) ==
    IF k > Len(edits) \/ st.error # NoError THEN st
    ELSE IF Matches(edits[k], name, st.c)
         THEN LET r == ColorEdit(orig, edits[k])
                  idx == ChannelIndex(orig.color.space, edits[k].variable)
              IN  SnapshotLoop([c |-> IF idx = 0 \/ r.error # NoError THEN st.c
                                      ELSE [st.c EXCEPT !.color.coords[idx] =
                                                r.c.color.coords[idx]],
                                error |-> r.error,
                                log |-> Append(st.log,
                                               [name |-> name, rule |-> k,
                                                before |-> r.before,
                                                after |-> r.after])],
                               orig, name, edits, k + 1)
         ELSE SnapshotLoop(st, orig, name, edits, k + 1)

ApplyEditsSnapshot(st, name, edits, k) == SnapshotLoop(st, st.c, name, edits, k)

\* The inner loop of lines 90-92 on one colour, from rule k on.  st is
\* [c, error, log]; it stops at the first error.
RECURSIVE ApplyEdits(_, _, _, _)
ApplyEdits(st, name, edits, k) ==
    IF k > Len(edits) \/ st.error # NoError THEN st
    ELSE IF Matches(edits[k], name, st.c)
         THEN LET r == ColorEdit(st.c, edits[k])
              IN  ApplyEdits([c |-> r.c, error |-> r.error,
                              log |-> Append(st.log,
                                             [name |-> name, rule |-> k,
                                              before |-> r.before,
                                              after |-> r.after])],
                             name, edits, k + 1)
         ELSE ApplyEdits(st, name, edits, k + 1)

\* The body of the loop of line 87 on one colour.
EditColor(c, name, edits, space) ==
    IF ConvertError(space) # NoError
    THEN [c |-> c, error |-> ConvertError(space), log |-> <<>>]
    ELSE ApplyEdits([c |-> [c EXCEPT !.color = Convert(c.color, space)],
                     error |-> NoError, log |-> <<>>],
                    name, edits, 1)

\* The loop of lines 87-92 from colour i on.  st is [colors, error, log].
RECURSIVE EditColors(_, _, _, _)
EditColors(st, edits, space, i) ==
    IF i > Len(st.colors) \/ st.error # NoError THEN st
    ELSE LET r == EditColor(st.colors[i].val, st.colors[i].key, edits, space)
         IN  EditColors([colors |-> [st.colors EXCEPT ![i].val = r.c],
                         error |-> r.error,
                         log |-> st.log \o r.log],
                        edits, space, i + 1)

\* The loop of lines 94-95.
Commit(colors) ==
    [i \in DOMAIN colors |-> [colors[i] EXCEPT !.val = ColorUpdate(colors[i].val)]]

\* The commit run whether or not the loop failed.
PaletteEditCommitAlways(p, cf) ==
    LET r == EditColors([colors |-> p.colors, error |-> NoError, log |-> <<>>],
                        DerivedEdits(cf, p), cf.color_space, 1)
    IN  [palette |-> [p EXCEPT !.colors = Commit(r.colors)],
         error |-> r.error,
         log |-> r.log]

\* Palette.edit: the palette it leaves, the error it raises and the calls
\* of Color.edit it made.
PaletteEdit(p, cf) ==
    LET r == EditColors([colors |-> p.colors, error |-> NoError, log |-> <<>>],
                        DerivedEdits(cf, p), cf.color_space, 1)
    IN  [palette |-> [p EXCEPT !.colors = IF r.error = NoError
                                          THEN Commit(r.colors) ELSE r.colors],
         error |-> r.error,
         log |-> r.log]

\* Palette.to_hex: the flattened copy it returns ...
ToHex(p) ==
    [p EXCEPT !.colors =
        [i \in DOMAIN p.colors |->
            [key |-> p.colors[i].key, val |-> p.colors[i].val.hex \o <<"f", "f">>]]]

\* The suffix appended to the stored hex itself.
AfterToHexInPlace(p) ==
    [p EXCEPT !.colors =
        [i \in DOMAIN p.colors |->
            [p.colors[i] EXCEPT !.val.hex = p.colors[i].val.hex \o <<"f", "f">>]]]

\* ... and what it leaves in the palette it was called on: the copy is built
\* by replace from a new dict of new strings.
AfterToHex(p) == p

\* ------------------------------------------------------------------------
\* Palettes and JsonEncoder
\* ------------------------------------------------------------------------
\* Palettes.palettes: the four slots in declaration order.
Slots == <<"latte", "frappe", "macchiato", "mocha">>

\* JsonEncoder._palettes
EncoderPalettes(ps, det) ==
    IF det THEN ps
    ELSE [f \in DOMAIN ps |-> IF f = "version" THEN ps[f] ELSE ToHex(ps[f]).colors]

\* JsonEncoder.encode: the document encoded; enc_hook turns a working value
\* into its string.
Encode(ps, det) == [detailed |-> det, doc |-> EncoderPalettes(ps, det)]

\* What encoding leaves in the palettes it was given: to_hex ran on every
\* variant unless the output is detailed.
AfterEncode(ps, det) ==
    IF det THEN ps
    ELSE [f \in DOMAIN ps |-> IF f = "version" THEN ps[f] ELSE AfterToHex(ps[f])]

\* JsonEncoder.write: the file of the suffix now holds the encoded document.
Write(fs, ps, det, suffix) == [fs EXCEPT ![suffix] = Some(Encode(ps, det))]

\* ------------------------------------------------------------------------
\* Inputs: the decoded config (config.toml) and palette document
\* ------------------------------------------------------------------------
Variables == {"l", "lightness", "s", "x"}
Values == {Zero, Half}
Types == {"value", "add", "multiply"}
Names == {None, Some("red")}
Accents == {None, Some(TRUE), Some(FALSE)}

\* Edit: the decoded rules; _inverse_light has its default.
Edits ==
    [variable : Variables, value : Values, type : Types, name : Names,
     accent : Accents, inverse_light : {FALSE}]

\* The rules that lists of two and more rules are made of.
ListEdits ==
    [variable : {"l", "x"}, value : {Half}, type : Types, name : {None},
     accent : {Some(TRUE), Some(FALSE)}, inverse_light : {FALSE}]

ColorSpaces == {"okhsl", "okhsv", "nospace"}

\* Config: no rule or one rule of any kind ...
ShortConfigs ==
    [color_space : ColorSpaces, inverse_edit_light : BOOLEAN,
     edits : UNION {[1..k -> Edits] : k \in 0..1}]

\* ... or a list of up to MaxEdits rules.
ListConfigs ==
    [color_space : {"okhsl"}, inverse_edit_light : BOOLEAN,
     edits : UNION {[1..k -> ListEdits] : k \in 2..MaxEdits}]

Hex(s) == <<"#">> \o s

\* The colours of the four variants of the palette document.
ColorsOf ==
    [latte |-> <<[key |-> "red", val |-> NewColor(Hex(<<"F", "0", "0">>), TRUE)]>>,
     frappe |-> <<[key |-> "red", val |-> NewColor(Hex(<<"f", "f", "0", "0", "0", "0">>), TRUE)],
                  [key |-> "base", val |-> NewColor(Hex(<<"8", "8", "8", "8", "8", "8">>), FALSE)]>>,
     macchiato |-> <<[key |-> "base", val |-> NewColor(Hex(<<"4", "4", "8", "8", "C", "C">>), FALSE)]>>,
     mocha |-> <<[key |-> "base", val |-> NewColor(Hex(<<"0", "0", "0", "0", "0", "0">>), TRUE)],
                 [key |-> "red", val |-> NewColor(Hex(<<"f", "f", "0", "0", "0", "0", "8", "0">>), FALSE)]>>]

SlotNames == {Slots[i] : i \in DOMAIN Slots}

\* Palettes: the decoded document, for the dark flags d of its variants.
PalettesOf(d) ==
    [f \in {"version"} \cup SlotNames |->
        IF f = "version" THEN "1"
        ELSE [name |-> f, dark |-> d[f], colors |-> ColorsOf[f]]]

DarkFlags == [SlotNames -> BOOLEAN]

\* ------------------------------------------------------------------------
\* main
\* ------------------------------------------------------------------------
\* Lines 158-161: the config and the palettes are decoded.  input keeps what
\* was decoded, calls the calls of Color.edit made so far, used the inverse
\* flag each variant was edited with.
Init ==
    /\ \/ conf \in ShortConfigs /\ detailed \in BOOLEAN
       \/ conf \in ListConfigs /\ detailed = FALSE
    /\ \E d \in DarkFlags : palettes = PalettesOf(d)
    /\ input = [conf |-> conf, palettes |-> palettes]
    /\ pc = "write_original"
    /\ vi = 1
    /\ files = [original |-> None, customized |-> None]
    /\ err = NoError
    /\ calls = <<>>
    /\ used = [i \in DOMAIN Slots |-> None]

\* The original snapshot left for later.
WriteOriginalDeferred ==
    /\ pc = "write_original"
    /\ pc' = "edit"
    /\ UNCHANGED <<conf, detailed, palettes, vi, files, err, input, calls, used>>

\* Line 162
WriteOriginal ==
    /\ pc = "write_original"
    /\ files' = Write(files, palettes, detailed, "original")
    /\ palettes' = AfterEncode(palettes, detailed)
    /\ pc' = "edit"
    /\ UNCHANGED <<conf, detailed, vi, err, input, calls, used>>

\* Lines 164-165: one turn of the loop, palette.edit(conf) on variant vi.
EditVariant ==
    /\ pc = "edit"
    /\ LET slot == Slots[vi]
           p == palettes[slot]
           r == PaletteEdit(p, conf)
       IN  /\ palettes' = [palettes EXCEPT ![slot] = r.palette]
           /\ conf' = [conf EXCEPT !.edits = SharedEdits(conf, p)]
           /\ used' = [used EXCEPT ![vi] = Some(Inverse(conf, p))]
           /\ calls' = calls \o [k \in DOMAIN r.log |->
                                    [slot |-> slot, name |-> r.log[k].name,
                                     rule |-> r.log[k].rule,
                                     before |-> r.log[k].before,
                                     after |-> r.log[k].after]]
           /\ err' = r.error
           /\ IF r.error # NoError
              THEN pc' = "failed" /\ vi' = vi
              ELSE IF vi = Len(Slots)
                   THEN pc' = "write_customized" /\ vi' = vi
                   ELSE pc' = "edit" /\ vi' = vi + 1
    /\ UNCHANGED <<detailed, files, input>>

\* Line 167
WriteCustomized ==
    /\ pc = "write_customized"
    /\ files' = Write(files, palettes, detailed, "customized")
    /\ palettes' = AfterEncode(palettes, detailed)
    /\ pc' = "done"
    /\ UNCHANGED <<conf, detailed, vi, err, input, calls, used>>

Next == WriteOriginal \/ EditVariant \/ WriteCustomized

Spec == Init /\ [][Next]_vars

\* ------------------------------------------------------------------------
\* Properties
\* ------------------------------------------------------------------------
\* Variant i went through Palette.edit without an error.
Edited(i) == used[i] # None /\ ~(pc = "failed" /\ vi = i)

InputColors(slot) == input.palettes[slot].colors

InputColor(slot, name) ==
    (CHOOSE e \in {InputColors(slot)[j] : j \in DOMAIN InputColors(slot)} :
        e.key = name).val

\* The invert flag of a variant as the configuration and the variant's dark
\* flag decide it.
InvertOf(slot) == input.conf.inverse_edit_light /\ ~input.palettes[slot].dark

Applied(slot, name, k) ==
    \E m \in DOMAIN calls :
        calls[m].slot = slot /\ calls[m].name = name /\ calls[m].rule = k

\* The rule selects the colour: by its name, or by its accent flag.
Selects(rule, name, accent) ==
    \/ rule.name # None /\ rule.name = {name}
    \/ rule.accent # None /\ rule.accent = {accent}

\* C1: a rule is applied to a colour if and only if its name is set and
\* equals the colour's name or its accent is set and equals the colour's
\* accent flag; a rule with neither set is applied to no colour.
C1_SelectorMatching ==
    /\ \A m \in DOMAIN calls :
          LET rule == input.conf.edits[calls[m].rule]
          IN  /\ Selects(rule, calls[m].name, InputColor(calls[m].slot, calls[m].name).accent)
              /\ ~(rule.name = None /\ rule.accent = None)
    /\ \A i \in DOMAIN Slots : Edited(i) =>
          \A k \in DOMAIN input.conf.edits, j \in DOMAIN InputColors(Slots[i]) :
              LET col == InputColors(Slots[i])[j]
              IN  Selects(input.conf.edits[k], col.key, col.val.accent)
                      => Applied(Slots[i], col.key, k)

\* A rule with both selectors set was applied to one colour through its name
\* only and to another through its accent flag only.
C1_Witness ==
    /\ pc = "done"
    /\ Len(conf.edits) = 1
    /\ conf.edits[1].name = Some("red") /\ conf.edits[1].accent = Some(FALSE)
    /\ Applied("frappe", "red", 1) /\ Applied("frappe", "base", 1)
    /\ ~Applied("mocha", "base", 1)

\* C2: a rule of type add leaves current - value when the config flag is on,
\* the variant is not dark and the channel is 'l' or 'lightness', and
\* current + value in every other case.
C2_AddInversion ==
    \A m \in DOMAIN calls :
        LET rule == input.conf.edits[calls[m].rule]
        IN  (rule.type = "add" /\ calls[m].before # None) =>
                \E b \in calls[m].before :
                    calls[m].after =
                        IF InvertOf(calls[m].slot) /\ rule.variable \in {"l", "lightness"}
                        THEN {RAdd(b, RNeg(rule.value))}
                        ELSE {RAdd(b, rule.value)}

\* With the config flag on, the same add rule on 'lightness' was applied to a
\* light variant and to a dark one.
C2_Witness ==
    /\ pc = "done"
    /\ conf.inverse_edit_light
    /\ \E m, n \in DOMAIN calls :
          /\ calls[m].rule = 1 /\ calls[n].rule = 1
          /\ conf.edits[1].type = "add" /\ conf.edits[1].variable = "lightness"
          /\ conf.edits[1].value = Half
          /\ ~input.palettes[calls[m].slot].dark
          /\ input.palettes[calls[n].slot].dark

\* C3: a multiply rule with value 0 on a lightness channel under invert ends
\* in an error and produces no channel value; without invert, or on another
\* channel, it returns current * 0.
C3_MultiplyByZero ==
    \A m \in DOMAIN calls :
        LET rule == input.conf.edits[calls[m].rule]
            now == palettes[calls[m].slot].colors
        IN  (rule.type = "multiply" /\ rule.value = Zero /\ calls[m].before # None) =>
                IF InvertOf(calls[m].slot) /\ rule.variable \in {"l", "lightness"}
                THEN /\ calls[m].after = None
                     /\ pc = "failed" /\ err.kind = "zero_division"
                     /\ m = Len(calls)
                     /\ \A j \in DOMAIN now : now[j].key = calls[m].name =>
                            calls[m].before = {now[j].val.color.coords[3]}
                ELSE \E b \in calls[m].before : calls[m].after = {RMul(b, Zero)}

\* The division by zero happened.
C3_Witness ==
    /\ pc = "failed" /\ err.kind = "zero_division"
    /\ Len(calls) > 0
    /\ input.conf.edits[calls[Len(calls)].rule].type = "multiply"
    /\ input.conf.edits[calls[Len(calls)].rule].value = Zero

\* The calls before call m on the same colour ...
Earlier(m) ==
    {n \in 1..(m - 1) : calls[n].slot = calls[m].slot /\ calls[n].name = calls[m].name}

ChannelOf(k) == ChannelIndex(input.conf.color_space, input.conf.edits[k].variable)

\* ... and those of them on the same channel.
EarlierOnChannel(m) == {n \in Earlier(m) : ChannelOf(calls[n].rule) = ChannelOf(calls[m].rule)}

Last(S) == CHOOSE n \in S : \A o \in S : o <= n

\* C4: the matching rules are applied in the order of config.edits, each to
\* the value the previous matching rule left in the channel; a rule of type
\* value yields exactly its value.
C4_OrderAndAccumulation ==
    \A m \in DOMAIN calls :
        LET rule == input.conf.edits[calls[m].rule]
            first == FromHex(InputColor(calls[m].slot, calls[m].name).hex)
        IN  /\ \A n \in Earlier(m) : calls[n].rule < calls[m].rule
            /\ calls[m].before # None =>
                  /\ calls[m].before =
                        IF EarlierOnChannel(m) = {}
                        THEN {first.coords[ChannelOf(calls[m].rule)]}
                        ELSE calls[Last(EarlierOnChannel(m))].after
                  /\ rule.type = "value" => calls[m].after = {rule.value}
                  /\ \A b \in calls[m].before :
                        /\ (rule.type = "add" /\ ~InvertOf(calls[m].slot)) =>
                              calls[m].after = {RAdd(b, rule.value)}
                        /\ (rule.type = "multiply" /\ ~InvertOf(calls[m].slot)) =>
                              calls[m].after = {RMul(b, rule.value)}

\* An add rule changed a channel and a rule of type value, applied to the
\* value the add rule left, then overrode it.
C4_Witness ==
    /\ pc = "done"
    /\ \E m \in DOMAIN calls :
          /\ calls[m].rule = 2
          /\ input.conf.edits[1].type = "add" /\ input.conf.edits[2].type = "value"
          /\ Cardinality(EarlierOnChannel(m)) = 1
          /\ calls[m].before # {FromHex(InputColor(calls[m].slot, calls[m].name).hex).coords[3]}
          /\ calls[m].after = {Half}

\* C5: the original snapshot is written before any colour is modified, so it
\* holds the decoded input; when the edit phase fails it has been written
\* and the customized snapshot has not.
C5_OriginalBeforeEdits ==
    /\ files.original = None => palettes = input.palettes
    /\ files.original # None => files.original = {Encode(input.palettes, detailed)}
    /\ pc = "failed" => files.original # None /\ files.customized = None
    /\ files.customized # None => pc = "done"

\* The edit phase failed on a later variant, after an earlier variant had
\* been modified.
C5_Witness ==
    /\ pc = "failed" /\ vi > 1
    /\ palettes[Slots[1]] # input.palettes[Slots[1]]
    /\ files.original # None

\* The colour the failed variant failed at: the first one when the colour
\* space is unknown, else the one of the last call of Color.edit.
FailedAt ==
    IF err.kind = "unknown_space" THEN 1
    ELSE CHOOSE j \in DOMAIN InputColors(Slots[vi]) :
            InputColors(Slots[vi])[j].key = calls[Len(calls)].name

\* C6: when a variant fails at a colour, no later colour and no later
\* variant is processed, no stored hex of the failing variant has changed,
\* and the variants processed before it keep their committed hex values.
C6_FailFast ==
    pc = "failed" =>
        LET slot == Slots[vi]
            now == palettes[slot].colors
        IN  /\ \A j \in DOMAIN now : now[j].val.hex = InputColors(slot)[j].val.hex
            /\ \A j \in DOMAIN now : j > FailedAt =>
                  /\ now[j] = InputColors(slot)[j]
                  /\ \A k \in DOMAIN input.conf.edits : ~Applied(slot, now[j].key, k)
            /\ \A i \in DOMAIN Slots : i > vi =>
                  /\ palettes[Slots[i]] = input.palettes[Slots[i]]
                  /\ used[i] = None
                  /\ \A m \in DOMAIN calls : calls[m].slot # Slots[i]
            /\ \A i \in DOMAIN Slots : i < vi =>
                  \A j \in DOMAIN palettes[Slots[i]].colors :
                      LET c == palettes[Slots[i]].colors[j].val
                      IN  c.hex = ToHexString(Convert(c.color, "srgb"))

\* A variant failed at its second colour after its first colour had been
\* edited, and after an earlier variant had been committed with a new hex.
C6_Witness ==
    /\ pc = "failed" /\ vi > 1 /\ FailedAt > 1
    /\ palettes[Slots[vi]].colors[1].val.color # InputColors(Slots[vi])[1].val.color
    /\ \E j \in DOMAIN InputColors(Slots[1]) :
          ParseHex(palettes[Slots[1]].colors[j].val.hex)
              # ParseHex(InputColors(Slots[1])[j].val.hex)

\* The failure is one of an unknown channel name or an unknown colour space.
EngineFailure == pc = "failed" /\ err.kind \in {"unknown_channel", "unknown_space"}

FlatColors(p) ==
    [j \in DOMAIN p.colors |->
        [key |-> p.colors[j].key, val |-> p.colors[j].val.hex \o <<"f", "f">>]]

Document(suffix) == (CHOOSE f \in files[suffix] : TRUE).doc

\* C8 as stated: in flattened mode each variant is encoded as the variant
\* itself, name and dark flag included, with its colour mapping flattened.
C8_FlattenedKeepsVariant ==
    (~detailed /\ files.original # None) =>
        \A i \in DOMAIN Slots :
            Document("original")[Slots[i]] =
                [name |-> input.palettes[Slots[i]].name,
                 dark |-> input.palettes[Slots[i]].dark,
                 colors |-> FlatColors(input.palettes[Slots[i]])]

\* C8 as amended: in flattened mode each variant is encoded as its flattened
\* colour mapping alone, and encoding changes no stored hex and no working
\* value of the palettes.
C8_FlattenedIsColorMapping ==
    ~detailed =>
        /\ files.original # None =>
              \A i \in DOMAIN Slots :
                  Document("original")[Slots[i]] = FlatColors(input.palettes[Slots[i]])
        /\ (pc = "edit" /\ used[1] = None) => palettes = input.palettes
        /\ files.customized # None =>
              \A i \in DOMAIN Slots :
                  Document("customized")[Slots[i]] = FlatColors(palettes[Slots[i]])

\* Both snapshots were written in flattened mode, the second after edits
\* that changed a stored hex.
C8_Witness ==
    /\ ~detailed /\ pc = "done"
    /\ files.original # None /\ files.customized # None
    /\ Document("original") # Document("customized")
    /\ Len(calls) > 0

\* No rule of the config has a selector.
NoSelectors ==
    /\ Len(input.conf.edits) > 0
    /\ \A k \in DOMAIN input.conf.edits :
          input.conf.edits[k].name = None /\ input.conf.edits[k].accent = None

LowerOf(ch) == LowerDigits[CHOOSE i \in 1..16 : LowerDigits[i] = ch \/ UpperDigits[i] = ch]

\* The hex string in the form the colour engine writes: every digit in lower
\* case, two digits a channel, no alpha digits for an opaque colour.
CanonicalHex(hex) ==
    LET long == IF Len(hex) \in {4, 5}
                THEN <<"#">> \o [k \in 1..(2 * (Len(hex) - 1)) |-> hex[((k + 1) \div 2) + 1]]
                ELSE hex
        lower == [k \in DOMAIN long |-> IF k = 1 THEN long[k] ELSE LowerOf(long[k])]
    IN  IF Len(lower) = 9 /\ lower[8] = "f" /\ lower[9] = "f"
        THEN SubSeq(lower, 1, 7) ELSE lower

C10_SharedRulesUnchanged ==
    /\ conf = input.conf
    /\ \A i \in DOMAIN Slots :
          used[i] # None => used[i] = {InvertOf(Slots[i])}

\* With the config flag on, a light variant was edited after a dark one and
\* a dark one after a light one, with rules applied.
C10_Witness ==
    /\ pc = "done" /\ conf.inverse_edit_light /\ Len(calls) > 0
    /\ input.palettes.latte.dark /\ ~input.palettes.frappe.dark
    /\ input.palettes.macchiato.dark
    /\ used[1] = {FALSE} /\ used[2] = {TRUE} /\ used[3] = {FALSE}

====
